---- MODULE Spec2Model ----
(***************************************************************************)
(* Private Planner (src/app.py): the submission store and the admin gate.  *)
(*                                                                         *)
(* Python strings that the program inspects character by character (the    *)
(* name and area lengths, the JSON text of the availabilities) are         *)
(* sequences of one-character strings.  Tokens are compared only as a      *)
(* whole (line 121) and are TLA+ strings.                                  *)
(*                                                                         *)
(* A request body or query parameter is a tagged value [t, v]: t says      *)
(* whether the field was sent as a string, sent as null or not sent.       *)
(***************************************************************************)
EXTENDS Integers, Sequences, FiniteSets, Bags, TLC

\* Bounds of the model.
MaxRunning == 2
MaxRows == 2

\* Field(..., max_length=100) and Field(..., max_length=200).
NameMaxLen == 100
AreaMaxLen == 200

Rep(c, n) == [i \in 1..n |-> c]

Str(s) == [t |-> "str", v |-> s]
Null == [t |-> "null", v |-> <<>>]
Absent == [t |-> "absent", v |-> <<>>]
List(s) == [t |-> "list", v |-> s]

-----------------------------------------------------------------------------
(* json.dumps / json.loads on the shapes submit produces: a list of dicts  *)
(* whose keys and values are strings.  A dict is a function from key to    *)
(* value; dumps walks it in insertion order (date, start, end).            *)

KDate == <<"d", "a", "t", "e">>
KStart == <<"s", "t", "a", "r", "t">>
KEnd == <<"e", "n", "d">>
DictOrder == <<KDate, KStart, KEnd>>

\* py_encode_basestring (ensure_ascii=False): the escapes of the characters
\* the inputs use.
EscapeChar(c) ==
  CASE c = "\"" -> <<"\\", "\"">>
    [] c = "\\" -> <<"\\", "\\">>
    [] c = "\n" -> <<"\\", "n">>
    [] OTHER -> <<c>>

RECURSIVE EscapeChars(_)
EscapeChars(s) ==
  IF s = <<>> THEN <<>> ELSE EscapeChar(Head(s)) \o EscapeChars(Tail(s))

EncodeStr(s) == <<"\"">> \o EscapeChars(s) \o <<"\"">>

RECURSIVE EncodeItems(_, _)
EncodeItems(d, keys) ==
  IF keys = <<>> THEN <<>>
  ELSE IF Head(keys) \notin DOMAIN d THEN EncodeItems(d, Tail(keys))
  ELSE LET item == EncodeStr(Head(keys)) \o <<":", " ">> \o EncodeStr(d[Head(keys)])
           rest == EncodeItems(d, Tail(keys))
       IN  IF rest = <<>> THEN item ELSE item \o <<",", " ">> \o rest

EncodeDict(d) == <<"{">> \o EncodeItems(d, DictOrder) \o <<"}">>

RECURSIVE EncodeElems(_)
EncodeElems(l) ==
  IF l = <<>> THEN <<>>
  ELSE IF Len(l) = 1 THEN EncodeDict(l[1])
  ELSE EncodeDict(Head(l)) \o <<",", " ">> \o EncodeElems(Tail(l))

json_dumps(l) == <<"[">> \o EncodeElems(l) \o <<"]">>

\* The decoder: every parser returns [ok, val, pos], pos the index after
\* what it consumed.
Fail == [ok |-> FALSE, val |-> <<>>, pos |-> 0]
Ok(val, pos) == [ok |-> TRUE, val |-> val, pos |-> pos]

Whitespace == {" ", "\n", "\t", "\r"}

RECURSIVE SkipWs(_, _)
SkipWs(s, i) ==
  IF i <= Len(s) /\ s[i] \in Whitespace THEN SkipWs(s, i + 1) ELSE i

At(s, i, c) == i <= Len(s) /\ s[i] = c

Unescape(c) ==
  CASE c = "\"" -> <<"\"">>
    [] c = "\\" -> <<"\\">>
    [] c = "/" -> <<"/">>
    [] c = "n" -> <<"\n">>
    [] c = "t" -> <<"\t">>
    [] c = "r" -> <<"\r">>
    [] OTHER -> <<>>

\* scanstring, after the opening quote.
RECURSIVE ScanString(_, _, _)
ScanString(s, i, acc) ==
  IF i > Len(s) THEN Fail
  ELSE IF s[i] = "\"" THEN Ok(acc, i + 1)
  ELSE IF s[i] = "\\" THEN
    IF i + 1 > Len(s) \/ Unescape(s[i + 1]) = <<>> THEN Fail
    ELSE ScanString(s, i + 2, acc \o Unescape(s[i + 1]))
  ELSE IF s[i] = "\n" THEN Fail
  ELSE ScanString(s, i + 1, Append(acc, s[i]))

ParseString(s, i) == IF At(s, i, "\"") THEN ScanString(s, i + 1, <<>>) ELSE Fail

\* JSONObject, after the first key's opening position; acc is the dict so far.
RECURSIVE ParseMembers(_, _, _)
ParseMembers(s, i, acc) ==
  LET k == ParseString(s, i) IN
  IF ~k.ok THEN Fail
  ELSE LET c == SkipWs(s, k.pos) IN
    IF ~At(s, c, ":") THEN Fail
    ELSE LET v == ParseString(s, SkipWs(s, c + 1)) IN
      IF ~v.ok THEN Fail
      ELSE LET d == (k.val :> v.val) @@ acc
               e == SkipWs(s, v.pos)
           IN  IF At(s, e, "}") THEN Ok(d, e + 1)
               ELSE IF At(s, e, ",") THEN ParseMembers(s, SkipWs(s, e + 1), d)
               ELSE Fail

ParseObject(s, i) ==
  IF ~At(s, i, "{") THEN Fail
  ELSE LET j == SkipWs(s, i + 1) IN
    IF At(s, j, "}") THEN Ok(<<>>, j + 1) ELSE ParseMembers(s, j, <<>>)

\* JSONArray, at the first element; acc is the list so far.
RECURSIVE ParseElements(_, _, _)
ParseElements(s, i, acc) ==
  LET o == ParseObject(s, i) IN
  IF ~o.ok THEN Fail
  ELSE LET l == Append(acc, o.val)
           e == SkipWs(s, o.pos)
       IN  IF At(s, e, "]") THEN Ok(l, e + 1)
           ELSE IF At(s, e, ",") THEN ParseElements(s, SkipWs(s, e + 1), l)
           ELSE Fail

ParseArray(s, i) ==
  IF ~At(s, i, "[") THEN Fail
  ELSE LET j == SkipWs(s, i + 1) IN
    IF At(s, j, "]") THEN Ok(<<>>, j + 1) ELSE ParseElements(s, j, <<>>)

\* json.loads: one value, then only whitespace to the end of the text.
json_loads(s) ==
  LET a == ParseArray(s, SkipWs(s, 1)) IN
  IF a.ok /\ SkipWs(s, a.pos) = Len(s) + 1 THEN a ELSE Fail

-----------------------------------------------------------------------------
(* The request boundary: FastAPI validates the body against PlanIn and the *)
(* query string against the handler's signature before the handler runs;   *)
(* a request that fails is answered 422 and the handler is never called.   *)

\* ValidStr without the max_length of the Field.
ValidStrNoMax(x, max) == x.t = "str"

\* A str field: sent, a string, and no longer than max_length.
ValidStr(x, max) == x.t = "str" /\ Len(x.v) <= max

\* Availability: date, start and end are required strings.
ValidAvailability(a) == a.date.t = "str" /\ a.start.t = "str" /\ a.end.t = "str"

\* PlanIn: name, area and availabilities are required; the food fields are
\* Optional[str] and take any of the three forms.
ValidPlanIn(body) ==
  /\ ValidStr(body.name, NameMaxLen)
  /\ ValidStr(body.area, AreaMaxLen)
  /\ body.availabilities.t = "list"
  /\ \A i \in 1..Len(body.availabilities.v) : ValidAvailability(body.availabilities.v[i])

\* Optional[str] = "": a field that was not sent takes the default.
OptDefault(x) == IF x.t = "absent" THEN Str(<<>>) ELSE x

\* The PlanIn object the handler receives.  A food field is Str(s) or Null
\* (Python None).
PlanIn(body) ==
  [name |-> body.name.v,
   area |-> body.area.v,
   availabilities |->
     [i \in 1..Len(body.availabilities.v) |->
        [date |-> body.availabilities.v[i].date.v,
         start |-> body.availabilities.v[i].start.v,
         end |-> body.availabilities.v[i].end.v]],
   food_dislike |-> OptDefault(body.food_dislike),
   food_weak |-> OptDefault(body.food_weak),
   food_cant |-> OptDefault(body.food_cant),
   food_want |-> OptDefault(body.food_want)]

NoPlan ==
  [name |-> <<>>, area |-> <<>>, availabilities |-> <<>>,
   food_dislike |-> Null, food_weak |-> Null, food_cant |-> Null, food_want |-> Null]

-----------------------------------------------------------------------------
(* submit, lines 74-117.                                                   *)

\* NoAvailabilities as `plan.availabilities is None`, which no parsed body is.
NoAvailabilitiesIsNone(plan) == FALSE

\* `not plan.availabilities`
NoAvailabilities(plan) == plan.availabilities = <<>>

\* The dict built for one Availability, lines 88-92.
AvailDict(a) == (KDate :> a.date) @@ (KStart :> a.start) @@ (KEnd :> a.end)

\* avail_json_lines with the loop starting at the second entry.
avail_json_lines_skip_first(plan) ==
  [i \in 1..(Len(plan.availabilities) - 1) |-> AvailDict(plan.availabilities[i + 1])]

\* The loop of lines 84-93.
avail_json_lines(plan) ==
  [i \in 1..Len(plan.availabilities) |-> AvailDict(plan.availabilities[i])]

\* `x or ""`
OrEmpty(x) == IF x.t = "null" \/ x.v = <<>> THEN <<>> ELSE x.v

\* NewRow with food_weak and food_cant in each other's place in the tuple.
NewRowSwapped(id, plan, now) ==
  [id |-> id,
   name |-> plan.name,
   area |-> plan.area,
   availabilities_json |-> json_dumps(avail_json_lines(plan)),
   food_dislike |-> OrEmpty(plan.food_dislike),
   food_weak |-> OrEmpty(plan.food_cant),
   food_cant |-> OrEmpty(plan.food_weak),
   food_want |-> OrEmpty(plan.food_want),
   created_at |-> now]

\* The parameter tuple of the INSERT, lines 104-113, with the id the store
\* assigns.
NewRow(id, plan, now) ==
  [id |-> id,
   name |-> plan.name,
   area |-> plan.area,
   availabilities_json |-> json_dumps(avail_json_lines(plan)),
   food_dislike |-> OrEmpty(plan.food_dislike),
   food_weak |-> OrEmpty(plan.food_weak),
   food_cant |-> OrEmpty(plan.food_cant),
   food_want |-> OrEmpty(plan.food_want),
   created_at |-> now]

RECURSIVE MaxId(_)
MaxId(rows) ==
  IF rows = <<>> THEN 0
  ELSE LET m == MaxId(Tail(rows)) IN IF Head(rows).id > m THEN Head(rows).id ELSE m

\* NextRowid without the increment.
NextRowidNoInc(rows, seq) == IF MaxId(rows) > seq THEN MaxId(rows) ELSE seq

\* INTEGER PRIMARY KEY AUTOINCREMENT: one more than the largest id the table
\* holds or has ever held.
NextRowid(rows, seq) == (IF MaxId(rows) > seq THEN MaxId(rows) ELSE seq) + 1

-----------------------------------------------------------------------------
(* require_admin and admin_list, lines 120-124 and 210-237.                *)

\* require_admin letting an empty token through.
require_admin_lax(token, secret) == token = secret \/ token = ""

require_admin(token, secret) == token = secret

\* The SELECT without DESC: the rows in rowid order, as the table holds them.
OrderByIdAsc(rows) == rows

\* ORDER BY id DESC: selection of the largest id, repeatedly.
RECURSIVE OrderByIdDesc(_)
OrderByIdDesc(rows) ==
  IF rows = <<>> THEN <<>>
  ELSE LET i == CHOOSE k \in 1..Len(rows) : \A j \in 1..Len(rows) : rows[j].id <= rows[k].id
       IN  <<rows[i]>> \o OrderByIdDesc(SubSeq(rows, 1, i - 1) \o SubSeq(rows, i + 1, Len(rows)))

\* One element of items, lines 225-235.
Item(r) ==
  [id |-> r.id,
   name |-> r.name,
   area |-> r.area,
   availabilities |-> json_loads(r.availabilities_json).val,
   food_dislike |-> r.food_dislike,
   food_weak |-> r.food_weak,
   food_cant |-> r.food_cant,
   food_want |-> r.food_want,
   created_at |-> r.created_at]

\* admin_list_response answering "not found" when there are no rows.
admin_list_response_404(rows) ==
  IF rows = <<>> THEN [status |-> 404, body |-> <<>>]
  ELSE [status |-> 200, body |-> [i \in 1..Len(rows) |-> Item(rows[i])]]

\* The response of admin_list over the fetched rows: json.loads raising is
\* an unhandled exception, a 500 with no items.
admin_list_response(rows) ==
  IF \A i \in 1..Len(rows) : json_loads(rows[i].availabilities_json).ok
  THEN [status |-> 200, body |-> [i \in 1..Len(rows) |-> Item(rows[i])]]
  ELSE [status |-> 500, body |-> <<>>]

-----------------------------------------------------------------------------
(* The requests the clients send.                                          *)

A1 == [date |-> <<"1", "1", "-", "2", "0">>,
       start |-> <<"1", "8", ":", "0", "0">>,
       end |-> <<"2", "1", ":", "0", "0">>]
\* Characters that the encoding must escape or that delimit the JSON text,
\* and an end before the start.
A2 == [date |-> <<"\"", ",", " ", "{">>,
       start |-> <<"\\", "\"", "\\", "n">>,
       end |-> <<"}", "]", "\n">>]

Sent(a) == [date |-> Str(a.date), start |-> Str(a.start), end |-> Str(a.end)]

Aki == Str(<<"A", "k", "i">>)
Tokyo == Str(<<"T", "o", "k", "y", "o">>)
Ramen == Str(<<"r", "a", "m", "e", "n">>)

Body(name, area, avail, dislike, weak, cant, want) ==
  [name |-> name, area |-> area, availabilities |-> avail,
   food_dislike |-> dislike, food_weak |-> weak, food_cant |-> cant, food_want |-> want]

\* The bodies POSTed to /api/submit: accepted ones that differ in every field,
\* and one rejected body for every way of being rejected.
Bodies ==
  << Body(Aki, Tokyo, List(<<Sent(A1)>>), Absent, Absent, Absent, Ramen),
     Body(Str(Rep("n", NameMaxLen)), Str(Rep("r", AreaMaxLen)), List(<<Sent(A1)>>),
          Absent, Absent, Absent, Absent),
     Body(Aki, Tokyo, List(<<Sent(A1), Sent(A2)>>), Str(<<"d">>), Null, Absent, Str(<<"w">>)),
     Body(Aki, Tokyo, List(<<Sent(A2), Sent(A1), Sent(A2)>>), Null, Str(<<"k">>), Str(<<"c">>), Str(<<>>)),
     Body(Str(Rep("n", NameMaxLen + 1)), Tokyo, List(<<Sent(A1)>>), Absent, Absent, Absent, Absent),
     Body(Absent, Tokyo, List(<<Sent(A1)>>), Absent, Absent, Absent, Absent),
     Body(Aki, Str(Rep("r", AreaMaxLen + 1)), List(<<Sent(A1)>>), Absent, Absent, Absent, Absent),
     Body(Aki, Absent, List(<<Sent(A1)>>), Absent, Absent, Absent, Absent),
     Body(Aki, Tokyo, Absent, Absent, Absent, Absent, Absent),
     Body(Aki, Tokyo, List(<<[date |-> Str(A1.date), start |-> Str(A1.start), end |-> Absent]>>),
          Absent, Absent, Absent, Absent),
     Body(Aki, Tokyo, List(<<>>), Str(<<"d">>), Null, Absent, Ramen),
     Body(Absent, Tokyo, List(<<>>), Absent, Absent, Absent, Absent),
     Body(Aki, Str(Rep("r", AreaMaxLen + 1)), List(<<>>), Absent, Absent, Absent, Absent) >>

\* os.environ.get("PLANNER_ADMIN_TOKEN", "changeme") with the variable unset.
ADMIN_TOKEN == "changeme"

\* The token query parameter: not sent, or one of these strings.
Tokens == <<Absent, Str(""), Str("wrong"), Str("changeme"), Str("Changeme"), Str("changeme ")>>

\* What datetime.utcnow().isoformat() may return.  The program stores the
\* text and never reads it back to decide anything, so one value stands for
\* the clock.
Times == {"2025-11-20T09:00:00.000001"}

-----------------------------------------------------------------------------
VARIABLES
  started,          \* the process is serving requests
  tableExists,      \* planner.db has the plans table
  plans,            \* the committed rows of plans, in insertion order
  sqlite_sequence,  \* the AUTOINCREMENT counter of plans
  pending,          \* the row inserted under the write lock and not committed
  running,          \* the handlers suspended at an await: a bag of Handler
  last              \* the operation that completed last and its response

vars == <<started, tableExists, plans, sqlite_sequence, pending, running, last>>

Response(op, arg, status, body) == [op |-> op, arg |-> arg, status |-> status, body |-> body]

\* A handler suspended before the statement named by at, with its arguments.
Handler(at, plan, token) == [at |-> at, plan |-> plan, token |-> token]

One(r) == SetToBag({r})

Init ==
  /\ started = FALSE
  /\ tableExists = FALSE
  /\ plans = <<>>
  /\ sqlite_sequence = 0
  /\ pending = <<>>
  /\ running = EmptyBag
  /\ last = Response("none", Absent, 0, <<>>)

\* init_db as DROP TABLE and CREATE TABLE.
init_db_recreate == <<>>

\* CREATE TABLE IF NOT EXISTS plans: the rows the table holds afterwards.
init_db == IF tableExists THEN plans ELSE <<>>

\* on_startup, lines 60-62: the process starts, on a database file that a
\* previous run may have filled.
on_startup ==
  /\ ~started
  /\ started' = TRUE
  /\ plans' = init_db
  /\ tableExists' = TRUE
  /\ last' = Response("startup", Absent, 0, <<>>)
  /\ UNCHANGED <<sqlite_sequence, pending, running>>

\* uvicorn stops the process once the running requests have been answered.
shutdown ==
  /\ started
  /\ running = EmptyBag
  /\ started' = FALSE
  /\ UNCHANGED <<tableExists, plans, sqlite_sequence, pending, running, last>>

Inserting == {r \in BagToSet(running) : r.at \in {"insert", "commit"}}
NumInserting == BagCardinality([r \in Inserting |-> running[r]])

\* The server takes a request while it has a handler to spare.
Accepting == started /\ BagCardinality(running) < MaxRunning

\* POST /api/submit up to the first await: the boundary's validation, then
\* lines 78-93.
submit(body) ==
  /\ Accepting
  /\ IF ~ValidPlanIn(body)
     THEN /\ last' = Response("submit", body, 422, <<>>)
          /\ UNCHANGED running
     ELSE IF NoAvailabilities(PlanIn(body))
     THEN /\ last' = Response("submit", body, 400, <<>>)
          /\ UNCHANGED running
     ELSE /\ Len(plans) + NumInserting < MaxRows
          /\ running' = running (+) One(Handler("insert", PlanIn(body), ""))
          /\ UNCHANGED last
  /\ UNCHANGED <<started, tableExists, plans, sqlite_sequence, pending>>

\* Lines 97-114: the INSERT runs once no other connection holds the write
\* lock, takes it, and is given its id; created_at is read on the way.
submit_execute(r, now) ==
  /\ BagIn(r, running)
  /\ r.at = "insert"
  /\ pending = <<>>
  /\ pending' = <<NewRow(NextRowid(plans, sqlite_sequence), r.plan, now)>>
  /\ running' = (running (-) One(r)) (+) One(Handler("commit", r.plan, ""))
  /\ UNCHANGED <<started, tableExists, plans, sqlite_sequence, last>>

\* Lines 115-117: the commit makes the row visible and frees the lock.
submit_commit(r) ==
  /\ BagIn(r, running)
  /\ r.at = "commit"
  /\ plans' = plans \o pending
  /\ sqlite_sequence' = pending[1].id
  /\ pending' = <<>>
  /\ running' = running (-) One(r)
  /\ last' = Response("submit", r.plan, 200, <<>>)
  /\ UNCHANGED <<started, tableExists>>

\* GET /admin, lines 127-207: the gate, then a page that holds no data.
admin_page(token) ==
  /\ Accepting
  /\ last' = Response("admin_page", token,
                      IF token.t = "absent" THEN 422
                      ELSE IF require_admin(token.v, ADMIN_TOKEN) THEN 200 ELSE 403,
                      <<>>)
  /\ UNCHANGED <<started, tableExists, plans, sqlite_sequence, pending, running>>

\* GET /api/admin/list up to the first await, lines 210-213.
admin_list(token) ==
  /\ Accepting
  /\ IF token.t = "absent"
     THEN /\ last' = Response("admin_list", token, 422, <<>>)
          /\ UNCHANGED running
     ELSE IF ~require_admin(token.v, ADMIN_TOKEN)
     THEN /\ last' = Response("admin_list", token, 403, <<>>)
          /\ UNCHANGED running
     ELSE /\ running' = running (+) One(Handler("select", NoPlan, token.v))
          /\ UNCHANGED last
  /\ UNCHANGED <<started, tableExists, plans, sqlite_sequence, pending>>

\* Lines 216-237: the SELECT reads the committed rows, and the response is
\* built from them.
admin_list_fetch(r) ==
  /\ BagIn(r, running)
  /\ r.at = "select"
  /\ LET resp == admin_list_response(OrderByIdDesc(plans))
     IN  last' = Response("admin_list", Str(r.token), resp.status, resp.body)
  /\ running' = running (-) One(r)
  /\ UNCHANGED <<started, tableExists, plans, sqlite_sequence, pending>>

Next ==
  \/ on_startup
  \/ shutdown
  \/ \E i \in 1..Len(Bodies) : submit(Bodies[i])
  \/ \E r \in BagToSet(running), now \in Times : submit_execute(r, now)
  \/ \E r \in BagToSet(running) : submit_commit(r)
  \/ \E i \in 1..Len(Tokens) : admin_page(Tokens[i])
  \/ \E i \in 1..Len(Tokens) : admin_list(Tokens[i])
  \/ \E r \in BagToSet(running) : admin_list_fetch(r)

Spec == Init /\ [][Next]_vars

-----------------------------------------------------------------------------
(* The claims.                                                             *)

\* What listAll with the correct token returns when the store holds rows.
Listing(rows) == admin_list_response(OrderByIdDesc(rows))

\* The elements of after that are not elements of before.
NewItems(before, after) ==
  {i \in 1..Len(after) : \A j \in 1..Len(before) : after[i] # before[j]}

\* The {date, start, end} record a submitted Availability is.
Submitted(a) ==
  [k \in {KDate, KStart, KEnd} |->
     IF k = KDate THEN a.date ELSE IF k = KStart THEN a.start ELSE a.end]

SameAvailabilities(item, p) ==
  /\ Len(item.availabilities) = Len(p.availabilities)
  /\ \A k \in 1..Len(p.availabilities) : item.availabilities[k] = Submitted(p.availabilities[k])

\* A returned food field against the submitted one: equal to it, or, with
\* nullAsEmpty, equal to it with null read as the empty string.
FoodMatches(returned, x, nullAsEmpty) ==
  IF nullAsEmpty /\ x.t = "null" THEN returned = <<>>
  ELSE x.t = "str" /\ returned = x.v

ItemMatches(item, p, nullAsEmpty) ==
  /\ item.name = p.name
  /\ item.area = p.area
  /\ FoodMatches(item.food_dislike, p.food_dislike, nullAsEmpty)
  /\ FoodMatches(item.food_weak, p.food_weak, nullAsEmpty)
  /\ FoodMatches(item.food_cant, p.food_cant, nullAsEmpty)
  /\ FoodMatches(item.food_want, p.food_want, nullAsEmpty)
  /\ SameAvailabilities(item, p)

\* The listing after a submit of p holds exactly one item that the listing
\* before did not, and it is p.
RoundTrip(p, before, after, nullAsEmpty) ==
  /\ before.status = 200
  /\ after.status = 200
  /\ LET new == NewItems(before.body, after.body)
     IN  /\ Cardinality(new) = 1
         /\ \A i \in new : ItemMatches(after.body[i], p, nullAsEmpty)

\* C1 as stated: every step that completes a submit adds to what listAll
\* returns exactly one record, whose name, area, four food fields and decoded
\* availabilities (in order) equal the submitted values.
C1_RoundTripAsStated ==
  [][\A r \in BagToSet(running) :
       submit_commit(r) => RoundTrip(r.plan, Listing(plans), Listing(plans'), FALSE)]_vars

\* C1 as amended: the same, with a food field that was submitted as null
\* returned as the empty string.
C1_RoundTrip ==
  [][\A r \in BagToSet(running) :
       submit_commit(r) => RoundTrip(r.plan, Listing(plans), Listing(plans'), TRUE)]_vars

\* A listAll has returned a record with three availabilities, the escaped
\* characters among them, after a submit.
C1_Witness ==
  /\ last.op = "admin_list"
  /\ last.status = 200
  /\ \E i \in 1..Len(last.body) :
       /\ Len(last.body[i].availabilities) = 3
       /\ last.body[i].availabilities[1] = Submitted(A2)
       /\ last.body[i].food_weak = <<"k">>

EmptyAvailabilities(body) == body.availabilities.t = "list" /\ body.availabilities.v = <<>>

\* C2: a submit whose availabilities are the empty list is answered, in that
\* step, with a client error (400, or 422 when another field is invalid too),
\* and leaves the store as it was, with no handler left to write later.
C2_EmptyRejected ==
  [][\A i \in 1..Len(Bodies) :
       (EmptyAvailabilities(Bodies[i]) /\ submit(Bodies[i])) =>
         /\ last'.op = "submit"
         /\ last'.status \in {400, 422}
         /\ last'.arg = Bodies[i]
         /\ UNCHANGED <<plans, sqlite_sequence, pending, running>>]_vars

\* A submit with no availabilities and valid other fields was refused with
\* 400 while the store held a record.
C2_Witness ==
  /\ last.op = "submit"
  /\ last.status = 400
  /\ EmptyAvailabilities(last.arg)
  /\ Len(plans) >= 1

\* C3: a listAll whose token is a string other than the secret is answered
\* 403 with no items, whatever the store holds.
C3_WrongTokenForbidden ==
  (last.op = "admin_list" /\ last.arg.t = "str" /\ last.arg.v # ADMIN_TOKEN)
    => (last.status = 403 /\ last.body = <<>>)

\* A listAll with a wrong token was refused while the store held records and
\* an authorised listAll was running.
C3_Witness ==
  /\ last.op = "admin_list"
  /\ last.arg.t = "str"
  /\ last.arg.v # ADMIN_TOKEN
  /\ last.status = 403
  /\ Len(plans) >= 1
  /\ \E r \in BagToSet(running) : r.at = "select"

\* C4: a listAll with no token at all is answered 403, like a wrong token.
C4_MissingTokenForbidden ==
  (last.op = "admin_list" /\ last.arg.t = "absent") => last.status = 403

\* A listAll with no token was answered while the store held records.
C4_Witness ==
  /\ last.op = "admin_list"
  /\ last.arg.t = "absent"
  /\ last.body = <<>>
  /\ Len(plans) >= 1

\* C5: the records listAll returns are strictly descending in id, and are the
\* records of the store, as far as they were committed, in the reverse of
\* their insertion order.
C5_NewestFirst ==
  (last.op = "admin_list" /\ last.status = 200) =>
    LET n == Len(last.body) IN
    /\ n <= Len(plans)
    /\ \A i \in 1..n : \A j \in 1..n : i < j => last.body[i].id > last.body[j].id
    /\ \A i \in 1..n : last.body[i].id = plans[n + 1 - i].id

\* A listAll returned two or more records.
C5_Witness ==
  /\ last.op = "admin_list"
  /\ last.status = 200
  /\ Len(last.body) >= 2

\* C6: no step changes or removes a stored record.
C6_NeverMutated ==
  [][/\ Len(plans') >= Len(plans)
     /\ \A i \in 1..Len(plans) : plans'[i] = plans[i]]_vars

\* The process has started again on a store that holds records.
C6_Witness ==
  /\ last.op = "startup"
  /\ started
  /\ Len(plans) >= 2

AllRows == plans \o pending

\* C7: the persisted availabilities of every record, committed or not, decode
\* to a non-empty list.
C7_NeverEmpty ==
  \A i \in 1..Len(AllRows) :
    /\ json_loads(AllRows[i].availabilities_json).ok
    /\ json_loads(AllRows[i].availabilities_json).val # <<>>

\* Records are stored, one more is being inserted, and a submit with no
\* availabilities has just been refused.
C7_Witness ==
  /\ Len(plans) >= 1
  /\ pending # <<>>
  /\ last.op = "submit"
  /\ last.status = 400

\* C8: listAll with the correct token on a store that holds nothing succeeds
\* with the empty sequence.
C8_EmptyStoreEmptyList ==
  (last.op = "admin_list" /\ last.arg.t = "str" /\ last.arg.v = ADMIN_TOKEN /\ plans = <<>>)
    => (last.status = 200 /\ last.body = <<>>)

\* listAll with the correct token was answered on an empty store.
C8_Witness ==
  /\ last.op = "admin_list"
  /\ last.arg.t = "str"
  /\ last.arg.v = ADMIN_TOKEN
  /\ plans = <<>>
  /\ pending = <<>>

BadNameOrArea(body) ==
  \/ body.name.t # "str"
  \/ Len(body.name.v) > 100
  \/ body.area.t # "str"
  \/ Len(body.area.v) > 200

\* C9: a submit whose name or area is missing or too long is answered 422 in
\* that step, before any statement runs, and nothing is written then or left
\* to be written.
C9_NameAreaRejected ==
  [][\A i \in 1..Len(Bodies) :
       (BadNameOrArea(Bodies[i]) /\ submit(Bodies[i])) =>
         /\ last'.op = "submit"
         /\ last'.status = 422
         /\ last'.arg = Bodies[i]
         /\ UNCHANGED <<plans, sqlite_sequence, pending, running>>]_vars

\* A submit with a name of 101 characters was refused while the store held a
\* record.
C9_Witness ==
  /\ last.op = "submit"
  /\ last.status = 422
  /\ last.arg.name.t = "str"
  /\ Len(last.arg.name.v) = 101
  /\ Len(plans) >= 1

\* A step of the connection that holds the write lock, or of one that takes it.
WriterStep ==
  \/ \E r \in BagToSet(running), now \in Times : submit_execute(r, now)
  \/ \E r \in BagToSet(running) : submit_commit(r)

====
